---- MODULE Spec2Model ----
(***************************************************************************)
(* Model of src/display.py: the LED-matrix dashboard.  The script loads    *)
(* its data once, then loops forever: refresh the data when it is stale,   *)
(* draw the screen selected by the wall clock, push it to the matrix,      *)
(* sleep half a second.  CTRL-C inside the loop clears the matrix.         *)
(*                                                                         *)
(* Time is counted in ticks of half a second (the sleep of line 164), so   *)
(* that int(time.time()) is a real truncation.  datetime.now() and         *)
(* time.time() read the same clock (the time zone is taken to be UTC).     *)
(***************************************************************************)
EXTENDS Integers, Sequences, FiniteSets, TLC

VARIABLES
    clock,          \* the wall clock, in ticks since the epoch
    pc,             \* position of the script
    weather_str,    \* global weather_str
    f1_data,        \* global f1_data
    last_update,    \* global last_update, in ticks
    current_time,   \* global current_time read at line 156, in ticks
    canvas,         \* the image draw_screen has drawn and not yet handed over
    displayed,      \* the image the matrix shows
    clears,         \* number of matrix.Clear() calls
    fetch_log,      \* the last get_f1_data call: when it started, how it ended
    interruptedAt,  \* position at which CTRL-C arrived ("none" before)
    schedule_response,  \* a received schedule document being normalized
    second_run      \* a second process drawing at the same wall time

vars == <<clock, pc, weather_str, f1_data, last_update, current_time, canvas,
          displayed, clears, fetch_log, interruptedAt, schedule_response,
          second_run>>

----------------------------------------------------------------------------
(* Program constants *)

TicksPerSecond == 2
RefreshSeconds == 600
RotationSeconds == 30
ClockSliceEnd == 10
WeatherSliceEnd == 20

RefreshTicks == RefreshSeconds * TicksPerSecond
TicksPerDay == 24 * 60 * 60 * TicksPerSecond

(* Bounds of the explored runs *)

Day0 == 4          \* the day the process starts on, at midnight
PhaseSpan == 61    \* ticks explored after the start (a full rotation)
TailSpan == 8      \* ticks explored around one refresh interval later
MaxEvents == 2     \* events in a schedule document

T0 == Day0 * TicksPerDay
LongSleep == RefreshTicks - 2
Instants ==
    {T0 + o : o \in 0..PhaseSpan} \cup {T0 + LongSleep + o : o \in 0..TailSpan}
FetchDur == {0, 1, 3}
SleepDur == {1, LongSleep}
BackSteps == {2, LongSleep}

----------------------------------------------------------------------------
(* Values *)

None == [tag |-> "None"]
NoImage == [drawn |-> {}, f1 |-> None]
NoResponse == [kind |-> "none"]
NoSecondRun == [pc |-> "none"]
Screens == {"Clock", "Weather", "Race"}

\* race['date'] strings: the "%Y-%m-%d" text of a day, or text strptime rejects
DateString(day) == [text |-> "%Y-%m-%d", day |-> day]
BadDateString == [text |-> "unparsable"]
DateStrings == {DateString(d) : d \in {Day0 - 1, Day0, Day0 + 1}} \cup {BadDateString}
Events == [date : DateStrings, form : {"ok", "nonStrLocality"}]
Schedules == UNION {[1..n -> Events] : n \in 0..MaxEvents}
Responses ==
    {[kind |-> k] : k \in {"ConnectionError", "notJSON", "noKeys"}}
    \cup {[kind |-> "schedule", races |-> s] : s \in Schedules}

----------------------------------------------------------------------------
(* get_weather, lines 30-31 *)

get_weather == "Weather feature needs API key"

(* The exceptions `except Exception` (line 64) catches: every exception   *)
(* class used here derives from Exception except KeyboardInterrupt, which *)
(* derives from BaseException.                                            *)
CaughtAll(e) == TRUE
CaughtOnlyKeyError(e) == e = "KeyError"
Caught(e) ==
    e \in {"ConnectionError", "JSONDecodeError", "KeyError", "ValueError",
           "TypeError", "AttributeError"}

(* datetime.strptime(race['date'], "%Y-%m-%d"), line 48: midnight of the day *)
strptime(s) == s.day * TicksPerDay
Parses(s) == s.text = "%Y-%m-%d"

(* strftime("%b %d"), line 55: month and day of the parsed date *)
strftime(t) == [text |-> "%b %d", day |-> t \div TicksPerDay]

(* The comparison of line 49 *)
IsAfterOrAt(race_date, current_date) == race_date >= current_date
IsAfter(race_date, current_date) == race_date > current_date

(* The loop of lines 46-51 from position i: the index of the first race   *)
(* whose date is after current_date, 0 when the list is exhausted         *)
(* (next_race stays None), -1 when strptime raises ValueError on the way. *)
RECURSIVE FindNextRace(_, _, _)
FindNextRace(races, i, current_date) ==
    IF i > Len(races) THEN 0
    ELSE IF ~Parses(races[i].date) THEN 0 - 1
    ELSE IF IsAfter(strptime(races[i].date), current_date) THEN i
    ELSE FindNextRace(races, i + 1, current_date)

(* The try block of get_f1_data, lines 36-62, on the response the request *)
(* produced: the value returned, or the exception raised.  Events carry   *)
(* distinct names; the event at position i is named i.                    *)
TryBody(resp, current_date) ==
    IF resp.kind = "ConnectionError"
    THEN [raised |-> "ConnectionError", value |-> None]     \* line 38
    ELSE IF resp.kind = "notJSON"
    THEN [raised |-> "JSONDecodeError", value |-> None]     \* line 39
    ELSE IF resp.kind = "noKeys"
    THEN [raised |-> "KeyError", value |-> None]            \* line 42
    ELSE LET i == FindNextRace(resp.races, 1, current_date) IN
         IF i < 0 THEN [raised |-> "ValueError", value |-> None]   \* line 48
         ELSE IF i = 0 THEN [raised |-> "none", value |-> None]    \* line 62
         ELSE [raised |-> "none",
               value |-> [tag |-> "dict",
                          race_name |-> i,
                          date |-> strftime(strptime(resp.races[i].date)),
                          location |-> IF resp.races[i].form = "ok"
                                       THEN "str" ELSE "nonStr"]]

(* get_f1_data, lines 34-66: the except clause turns a caught exception   *)
(* into the return value None; one it does not catch propagates.          *)
get_f1_data(resp, current_date) ==
    LET r == TryBody(resp, current_date) IN
    IF r.raised = "none" THEN [value |-> r.value, error |-> "none", escaped |-> FALSE]
    ELSE IF Caught(r.raised) THEN [value |-> None, error |-> r.raised, escaped |-> FALSE]
    ELSE [value |-> None, error |-> r.raised, escaped |-> TRUE]

----------------------------------------------------------------------------
(* draw_screen, lines 126-142 *)

(* seconds = int(time.time()) % 30, line 132 *)
SecondOfPeriod(now) == (now \div TicksPerSecond) % RotationSeconds

(* The if/elif/else of lines 134-139: the draw functions called *)
DrawCallsOffByOne(seconds) ==
    IF seconds <= ClockSliceEnd THEN {"Clock"}
    ELSE IF seconds <= WeatherSliceEnd THEN {"Weather"}
    ELSE {"Race"}
DrawCalls(seconds) ==
    IF seconds < ClockSliceEnd THEN {"Clock"}
    ELSE IF seconds < WeatherSliceEnd THEN {"Weather"}
    ELSE {"Race"}

(* draw_f1_screen, lines 104-124: f1_data['location'][:8] (line 118)      *)
(* raises TypeError when the location is not a string.                     *)
DrawF1Raises(data) == data.tag = "dict" /\ data.location # "str"

(* draw_screen up to line 139 at time now with the snapshot data: the     *)
(* draw function called, whether it raised, and the image drawn.          *)
draw_screen_skips_empty(now, data) ==
    LET slice == DrawCalls(SecondOfPeriod(now))
        calls == IF "Race" \in slice /\ data = None THEN {"Clock"} ELSE slice
    IN [calls |-> calls,
        raised |-> "Race" \in calls /\ DrawF1Raises(data),
        image |-> [drawn |-> calls,
                   f1 |-> IF "Race" \in calls THEN data ELSE None]]
draw_screen(now, data) ==
    LET calls == DrawCalls(SecondOfPeriod(now))
    IN [calls |-> calls,
        raised |-> "Race" \in calls /\ DrawF1Raises(data),
        image |-> [drawn |-> calls,
                   f1 |-> IF "Race" \in calls THEN data ELSE None]]

(* The condition of line 157 *)
IsRefreshDue(now, last) == now - last > RefreshTicks

----------------------------------------------------------------------------
(* The script *)

InitPcs == {"init_get"}
LoopPcs == {"check", "get", "draw", "present", "sleep"}
Running == InitPcs \cup LoopPcs

Init ==
    /\ clock = T0
    /\ pc = "init_get"              \* line 146: the first request is in flight
    /\ weather_str = get_weather    \* line 145
    /\ f1_data = None
    /\ last_update = 0              \* line 149
    /\ current_time = 0
    /\ canvas = NoImage
    /\ displayed = NoImage
    /\ clears = 0
    /\ fetch_log = [at |-> T0, outcome |-> "pending"]
    /\ interruptedAt = "none"
    /\ schedule_response = NoResponse
    /\ second_run = NoSecondRun

(* What a call leaves behind: "ok", or the exception line 65 prints *)
Outcome(r) == IF r.error = "none" THEN "ok" ELSE r.error

(* Line 146: the initial get_f1_data() returns after d ticks *)
InitialLoad ==
    /\ pc = "init_get"
    /\ \E resp \in Responses, d \in FetchDur :
         /\ clock + d \in Instants
         /\ clock' = clock + d
         /\ LET r == get_f1_data(resp, clock + d) IN
            /\ fetch_log' = [fetch_log EXCEPT !.outcome = Outcome(r)]
            /\ IF r.escaped
               THEN pc' = "crashed" /\ UNCHANGED f1_data
               ELSE pc' = "check" /\ f1_data' = r.value
    /\ UNCHANGED <<weather_str, last_update, current_time, canvas, displayed,
                   clears, interruptedAt, schedule_response,
                   second_run>>

(* Lines 156-158: read the clock, test, and when due start the refresh *)
CheckRefresh ==
    /\ pc = "check"
    /\ current_time' = clock
    /\ IF IsRefreshDue(clock, last_update)
       THEN /\ weather_str' = get_weather
            /\ fetch_log' = [at |-> clock, outcome |-> "pending"]
            /\ pc' = "get"
       ELSE /\ pc' = "draw"
            /\ UNCHANGED <<weather_str, fetch_log>>
    /\ UNCHANGED <<clock, f1_data, last_update, canvas, displayed, clears,
                   interruptedAt, schedule_response,
                   second_run>>

(* Lines 159-161 with last_update taken from the clock after the call *)
RefreshStampsAfter ==
    /\ pc = "get"
    /\ \E resp \in Responses, d \in FetchDur :
         /\ clock + d \in Instants
         /\ clock' = clock + d
         /\ LET r == get_f1_data(resp, clock + d) IN
            /\ fetch_log' = [fetch_log EXCEPT !.outcome = Outcome(r)]
            /\ IF r.escaped
               THEN pc' = "crashed" /\ UNCHANGED <<f1_data, last_update>>
               ELSE /\ pc' = "draw"
                    /\ f1_data' = r.value
                    /\ last_update' = clock + d
    /\ UNCHANGED <<weather_str, current_time, canvas, displayed, clears,
                   interruptedAt, schedule_response, second_run>>

(* Lines 159-161: get_f1_data() returns after d ticks *)
Refresh ==
    /\ pc = "get"
    /\ \E resp \in Responses, d \in FetchDur :
         /\ clock + d \in Instants
         /\ clock' = clock + d
         /\ LET r == get_f1_data(resp, clock + d) IN
            /\ fetch_log' = [fetch_log EXCEPT !.outcome = Outcome(r)]
            /\ IF r.escaped
               THEN pc' = "crashed" /\ UNCHANGED <<f1_data, last_update>>
               ELSE /\ pc' = "draw"
                    /\ f1_data' = r.value
                    /\ last_update' = current_time
    /\ UNCHANGED <<weather_str, current_time, canvas, displayed, clears,
                   interruptedAt, schedule_response,
                   second_run>>

(* Lines 127-139 of draw_screen: a blank image, then the selected screen *)
DrawScreen ==
    /\ pc = "draw"
    /\ LET r == draw_screen(clock, f1_data) IN
       IF r.raised
       THEN pc' = "crashed" /\ UNCHANGED canvas
       ELSE pc' = "present" /\ canvas' = r.image
    /\ UNCHANGED <<clock, weather_str, f1_data, last_update, current_time,
                   displayed, clears, fetch_log, interruptedAt, schedule_response,
                   second_run>>

(* Line 142: matrix.SetImage(image) *)
SetImage ==
    /\ pc = "present"
    /\ displayed' = canvas
    /\ canvas' = NoImage
    /\ pc' = "sleep"
    /\ UNCHANGED <<clock, weather_str, f1_data, last_update, current_time,
                   clears, fetch_log, interruptedAt, schedule_response,
                   second_run>>

(* Line 142 failing inside a try/except that goes on with the loop *)
SetImageFailureSwallowed ==
    /\ pc = "present"
    /\ pc' = "sleep"
    /\ UNCHANGED <<clock, weather_str, f1_data, last_update, current_time,
                   canvas, displayed, clears, fetch_log, interruptedAt,
                   schedule_response, second_run>>

(* Line 142 when the matrix fails: the exception leaves the loop uncaught *)
SetImageFails ==
    /\ pc = "present"
    /\ pc' = "crashed"
    /\ UNCHANGED <<clock, weather_str, f1_data, last_update, current_time,
                   canvas, displayed, clears, fetch_log, interruptedAt,
                   schedule_response, second_run>>

(* Line 164: time.sleep(0.5), or longer when the process is held up *)
Sleep ==
    /\ pc = "sleep"
    /\ \E d \in SleepDur :
         /\ clock + d \in Instants
         /\ clock' = clock + d
    /\ pc' = "check"
    /\ UNCHANGED <<weather_str, f1_data, last_update, current_time, canvas,
                   displayed, clears, fetch_log, interruptedAt, schedule_response,
                   second_run>>

(* The wall clock is set back while the script runs *)
ClockSetBack ==
    /\ pc \in Running
    /\ \E b \in BackSteps :
         /\ clock - b \in Instants
         /\ clock' = clock - b
    /\ UNCHANGED <<pc, weather_str, f1_data, last_update, current_time, canvas,
                   displayed, clears, fetch_log, interruptedAt, schedule_response,
                   second_run>>

(* CTRL-C.  Inside get_f1_data the except clause of line 64 sees it first: *)
(* caught there, the call returns None and the loop goes on.  Otherwise it *)
(* reaches the handler of line 165 from inside the try block, and ends the *)
(* process from the initial load, which is outside it.                     *)
KeyboardInterrupt ==
    /\ pc \in Running
    /\ interruptedAt = "none"
    /\ interruptedAt' = pc
    /\ IF pc \in {"init_get", "get"} /\ Caught("KeyboardInterrupt")
       THEN /\ f1_data' = None
            /\ fetch_log' = [fetch_log EXCEPT !.outcome = "KeyboardInterrupt"]
            /\ IF pc = "get"
               THEN pc' = "draw" /\ last_update' = current_time
               ELSE pc' = "check" /\ UNCHANGED last_update
       ELSE /\ pc' = IF pc \in LoopPcs THEN "handler" ELSE "crashed"
            /\ UNCHANGED <<f1_data, last_update, fetch_log>>
    /\ UNCHANGED <<clock, weather_str, current_time, canvas, displayed, clears,
                   schedule_response, second_run>>

(* Lines 165-167 with the try/except inside the while loop *)
HandlerResumes ==
    /\ pc = "handler"
    /\ clears' = clears + 1
    /\ displayed' = NoImage
    /\ pc' = "check"
    /\ UNCHANGED <<clock, weather_str, f1_data, last_update, current_time,
                   canvas, fetch_log, interruptedAt, schedule_response,
                   second_run>>

(* Lines 165-167: the handler clears the matrix *)
Handler ==
    /\ pc = "handler"
    /\ clears' = clears + 1
    /\ displayed' = NoImage
    /\ pc' = "done"
    /\ UNCHANGED <<clock, weather_str, f1_data, last_update, current_time,
                   canvas, fetch_log, interruptedAt, schedule_response,
                   second_run>>

Next ==
    \/ InitialLoad
    \/ CheckRefresh
    \/ Refresh
    \/ DrawScreen
    \/ SetImage
    \/ SetImageFails
    \/ Sleep
    \/ ClockSetBack
    \/ KeyboardInterrupt
    \/ Handler

Spec == Init /\ [][Next]_vars

----------------------------------------------------------------------------
(* The normalization of get_f1_data on its own: a received response and a *)
(* current date drawn from the bounded sets, and the call applied to them *)

NormalizeInit ==
    /\ clock \in Instants
    /\ schedule_response \in Responses
    /\ pc = "normalize"
    /\ weather_str = get_weather
    /\ f1_data = None
    /\ last_update = 0
    /\ current_time = 0
    /\ canvas = NoImage
    /\ displayed = NoImage
    /\ clears = 0
    /\ fetch_log = [at |-> clock, outcome |-> "pending"]
    /\ interruptedAt = "none"
    /\ second_run = NoSecondRun

Normalize ==
    /\ pc = "normalize"
    /\ LET r == get_f1_data(schedule_response, clock) IN
       /\ fetch_log' = [fetch_log EXCEPT !.outcome = Outcome(r)]
       /\ f1_data' = r.value
       /\ pc' = IF r.escaped THEN "crashed" ELSE "normalized"
    /\ UNCHANGED <<clock, weather_str, last_update, current_time, canvas,
                   displayed, clears, interruptedAt, schedule_response,
                   second_run>>

NormalizeNext == Normalize

NormalizeSpec == NormalizeInit /\ [][NormalizeNext]_vars

----------------------------------------------------------------------------
(* Two runs of the script drawing at the same wall time: each is at line  *)
(* 163 of some iteration, with its own snapshot and its own last refresh. *)

Snapshots ==
    {None} \cup
    [tag : {"dict"}, race_name : 1..MaxEvents,
     date : {strftime(strptime(DateString(Day0 + 1)))},
     location : {"str", "nonStr"}]

PairInit ==
    /\ clock \in Instants
    /\ pc = "draw"
    /\ weather_str = get_weather
    /\ f1_data \in Snapshots
    /\ current_time \in {T0, clock}
    /\ last_update = current_time
    /\ canvas = NoImage
    /\ displayed \in {NoImage, [drawn |-> {"Clock"}, f1 |-> None]}
    /\ clears = 0
    /\ fetch_log = [at |-> last_update,
                    outcome |-> IF f1_data = None THEN "KeyError" ELSE "ok"]
    /\ interruptedAt = "none"
    /\ schedule_response = NoResponse
    /\ second_run \in [pc : {"draw"}, f1_data : Snapshots,
                       last_update : {T0, clock}, calls : {{}}]

(* Lines 127-139 of draw_screen in the second run *)
DrawScreenSecond ==
    /\ second_run.pc = "draw"
    /\ LET r == draw_screen(clock, second_run.f1_data) IN
       second_run' = [second_run EXCEPT
                        !.pc = IF r.raised THEN "crashed" ELSE "present",
                        !.calls = r.calls]
    /\ UNCHANGED <<clock, pc, weather_str, f1_data, last_update, current_time,
                   canvas, displayed, clears, fetch_log, interruptedAt,
                   schedule_response>>

PairNext ==
    \/ DrawScreen
    \/ DrawScreenSecond

PairSpec == PairInit /\ [][PairNext]_vars

----------------------------------------------------------------------------
(* Properties *)

Failed(log) == log.outcome \notin {"ok", "pending"}

(* C1: with a 30 s rotation and 10 s slices, every completed draw of a    *)
(* render tick draws exactly one screen: Clock when floor(now) mod 30 is   *)
(* in 0..9, Weather when in 10..19, Race when in 20..29.                   *)
C1_ScreenBySlice ==
    [][(pc = "draw" /\ pc' = "present") =>
         LET s == (clock \div 2) % 30 IN
         /\ Cardinality(canvas'.drawn) = 1
         /\ s \in 0..9 => canvas'.drawn = {"Clock"}
         /\ s \in 10..19 => canvas'.drawn = {"Weather"}
         /\ s \in 20..29 => canvas'.drawn = {"Race"}]_vars

C1_Witness ==
    /\ pc = "present"
    /\ canvas.drawn = {"Race"}
    /\ clock = T0 + 59

(* C2: the refresh step attempts a refresh exactly when                    *)
(* now - lastAttempt >= 600 s or lastAttempt is 0; in particular at        *)
(* exactly now = lastAttempt + 600 s.                                      *)
C2_DueAtInterval ==
    [][(pc = "check" /\ pc' \in {"get", "draw"}) =>
         (pc' = "get" <=> (clock - last_update >= 600 * 2 \/ last_update = 0))]_vars

(* C3: when now < lastAttempt (the clock was set back) the refresh check   *)
(* treats the refresh as due on that tick.                                 *)
C3_BackwardClockIsDue ==
    [][(pc = "check" /\ pc' \in {"get", "draw"} /\ clock < last_update) =>
         pc' = "get"]_vars

(* C4: a refresh attempt whose fetch fails leaves the race snapshot as it  *)
(* was before the attempt and sets lastAttempt to the time of the attempt. *)
C4_FailureKeepsSnapshot ==
    [][(pc = "get" /\ pc' = "draw" /\ Failed(fetch_log')) =>
         (f1_data' = f1_data /\ last_update' = current_time)]_vars

(* C5: a render tick is never blocked by a fetch: while the fetch of a     *)
(* refresh is in flight, the loop can still draw or present.               *)
C5_RenderNotBlocked ==
    pc = "get" => ENABLED (DrawScreen \/ SetImage)

(* C6: a CTRL-C arriving anywhere in a loop iteration leads to the handler *)
(* and to exactly one matrix.Clear() before the process exits.             *)
C6_ClearExactlyOnce ==
    /\ clears <= 1
    /\ interruptedAt \in LoopPcs => pc \in {"handler", "done"}
    /\ pc = "handler" => clears = 0
    /\ pc = "done" => clears = 1 /\ interruptedAt \in LoopPcs

C6_Witness ==
    /\ pc = "done"
    /\ interruptedAt = "get"
    /\ clears = 1

(* C7: a CTRL-C arriving after the screen was drawn and before the image   *)
(* was handed to the matrix lets the render finish: the image is presented *)
(* before the matrix is cleared and the process exits.                     *)
C7_PresentThenClear ==
    (interruptedAt = "present" /\ pc = "done") => canvas = NoImage

(* C8: after a fetch attempt failed at time t, no further attempt starts   *)
(* before t + 600 s, the initial load and the first iteration included.    *)
C8_NoEarlyRetry ==
    [][(pc = "check" /\ pc' = "get" /\ Failed(fetch_log)) =>
         clock >= fetch_log.at + 600 * 2]_vars

(* C9: no failure of the data layer ends the loop: a failing fetch makes   *)
(* the call return (the snapshot becomes None) and control go on to the    *)
(* render, no step of the refresh crashes the script, and drawing a None   *)
(* snapshot does not crash it either.                                      *)
C9_DataFailureNeverEscapes ==
    [][/\ (pc \in {"init_get", "get"} /\ Failed(fetch_log'))
            => (pc' = (IF pc = "get" THEN "draw" ELSE "check") /\ f1_data' = None)
       /\ (pc \in {"check", "get"}) => pc' # "crashed"
       /\ (pc = "init_get" /\ interruptedAt' = interruptedAt) => pc' # "crashed"
       /\ (pc = "draw" /\ f1_data = None) => pc' # "crashed"]_vars

C9_Witness ==
    /\ pc = "sleep"
    /\ fetch_log = [at |-> current_time, outcome |-> "ValueError"]
    /\ displayed.drawn = {"Race"}
    /\ interruptedAt = "none"

(* C10: on a list of events with well-formed dates the normalization       *)
(* returns the first event whose date is strictly after now (one dated     *)
(* exactly now is not selected), and None, without an error, when there is *)
(* no such event.                                                          *)
C10_FirstFutureEvent ==
    (/\ pc = "normalized"
     /\ schedule_response.kind = "schedule"
     /\ \A i \in 1..Len(schedule_response.races) :
            schedule_response.races[i].date.text = "%Y-%m-%d")
    => LET races == schedule_response.races
           future == {i \in 1..Len(races) : races[i].date.day * TicksPerDay > clock}
       IN /\ fetch_log.outcome = "ok"
          /\ future = {} => f1_data = None
          /\ future # {} =>
               /\ f1_data.tag = "dict"
               /\ f1_data.race_name \in future
               /\ \A j \in future : f1_data.race_name <= j
               /\ f1_data.date.day = races[f1_data.race_name].date.day

C10_Witness ==
    /\ pc = "normalized"
    /\ clock = T0
    /\ schedule_response.kind = "schedule"
    /\ Len(schedule_response.races) = 2
    /\ schedule_response.races[1].date = DateString(Day0)
    /\ schedule_response.races[2].date = DateString(Day0 + 1)
    /\ f1_data.tag = "dict"
    /\ f1_data.race_name = 2

(* C11: the screen drawn depends only on the wall time: two runs drawing   *)
(* at the same time draw the same screen, whatever their snapshots, last   *)
(* refresh times and earlier ticks (a run whose draw raised was drawing    *)
(* the screen the other run drew).                                         *)
C11_SameTimeSameScreen ==
    /\ (pc = "present" /\ second_run.pc \in {"present", "crashed"})
         => canvas.drawn = second_run.calls
    /\ (pc = "crashed" /\ second_run.pc = "crashed") => second_run.calls = {"Race"}
    /\ (pc = "crashed" /\ second_run.pc = "present") => second_run.calls = {"Race"}

C11_Witness ==
    /\ pc = "present"
    /\ second_run.pc = "present"
    /\ canvas.drawn = {"Race"}
    /\ f1_data = None
    /\ second_run.f1_data # None
    /\ second_run.last_update # last_update

(* C12: every loop iteration that is not cancelled (and not ended by a     *)
(* failure of the matrix) goes from the refresh step to the draw, and from *)
(* the draw to the hand-over of the image: whether the refresh was not     *)
(* due, succeeded or failed, the iteration presents the drawn image.       *)
C12_EveryIterationPresents ==
    [][/\ (pc = "check" /\ pc' \notin {"check", "handler"}) => pc' \in {"get", "draw"}
       /\ (pc = "get" /\ pc' \notin {"get", "handler"}) => pc' = "draw"
       /\ (pc = "draw" /\ pc' \notin {"draw", "handler"}) => pc' = "present"
       /\ (pc = "present" /\ pc' \notin {"present", "handler", "crashed"})
            => (pc' = "sleep" /\ displayed' = canvas)]_vars

(* C13: a failure of matrix.SetImage is fatal: the step that leaves line   *)
(* 142 without handing the image over and without a CTRL-C ends the        *)
(* script, and nothing happens after the script has ended that way.        *)
C13_SinkFailureIsFatal ==
    [][/\ (pc = "present" /\ canvas' = canvas /\ pc' \notin {"present", "handler"})
            => pc' = "crashed"
       /\ pc = "crashed" => vars' = vars]_vars

C13_Witness ==
    /\ pc = "crashed"
    /\ canvas # NoImage
    /\ interruptedAt = "none"

(* C14: a tick on which the refresh is not due, and every render, leave    *)
(* weather_str, f1_data and last_update as they were; last_update changes  *)
(* only in the refresh of a tick, to the time that tick read at its start. *)
C14_RefreshStateFrame ==
    [][/\ ((pc = "check" /\ pc' = "draw") \/ pc \in {"draw", "present", "sleep"})
            => (weather_str' = weather_str /\ f1_data' = f1_data
                /\ last_update' = last_update)
       /\ last_update' # last_update
            => (pc = "get" /\ pc' = "draw" /\ last_update' = current_time
                /\ current_time = fetch_log.at)]_vars

C14_Witness ==
    /\ pc = "present"
    /\ last_update = current_time
    /\ last_update = fetch_log.at
    /\ clock > current_time
    /\ fetch_log.outcome = "ok"
    /\ f1_data # None

(* C15: matrix.Clear is called only when the loop has been left, and after *)
(* it nothing more happens: no image is presented, no fetch is attempted.  *)
C15_TeardownIsFinal ==
    [][/\ clears' # clears => (pc = "handler" /\ pc' = "done")
       /\ clears > 0 => vars' = vars]_vars

C15_Witness ==
    /\ pc = "done"
    /\ clears = 1
    /\ displayed = NoImage
    /\ interruptedAt = "sleep"
    /\ last_update > T0

====
